---- MODULE Spec2Model ----
(***************************************************************************)
(* A model of MrMustard's representation and contraction engine: the Wires *)
(* id table with its masked views (mrmustard/lab_dev/wires.py), the        *)
(* CircuitComponent constructors and operations built on it                *)
(* (mrmustard/lab_dev), the Data algebra (mrmustard/math/datatypes.py) and *)
(* the State classes (mrmustard/lab/abstract/state_bak.py).  Python values *)
(* are modelled as records; an operation that raises is modelled by an     *)
(* outcome carrying the name of the exception class.                       *)
(***************************************************************************)
EXTENDS Integers, Sequences, FiniteSets, TLC

VARIABLES
    args,   \* the four mode arguments handed to the Wires constructor
    w,      \* outcome of Wires(*args): the Wires object, or the exception raised;
            \* in the session of views, the Wires at hand (w or a view of it)
    rng,    \* number of integers drawn so far from settings.rng
    L, R,   \* the two CircuitComponent objects of the session (or NoComp)
    ws,     \* the Wires objects constructed so far in a session of constructions
    data,   \* the Data object that is the `self` of the Data operations
    heap,   \* the arrays allocated in the session of mask changes, by address
    objs,   \* the Wires objects of that session: modes, and the addresses of
            \* the id table and of the mask
    st,     \* the State object of the sessions of states
    last    \* the last operation evaluated: its name, its input, its outcome

vars == <<args, w, rng, L, R, ws, data, heap, objs, st, last>>

\* the variables of the sessions that are not running
unused == <<heap, objs, st>>
idle == <<ws, data, unused>>

-----------------------------------------------------------------------------
(* Bounds of the model *)

MaxMode == 1        \* modes are 0..MaxMode
MaxLen == 2         \* longest mode list handed to a constructor
IdRange == 16       \* size of the id space (2**62 - 1 in the program)
MaxChain == 2       \* longest chain of views
MaxWires == 2       \* Wires objects constructed in a session of constructions
IdChoices == 2      \* integers the generator can return in such a session
MaxBatch == 3       \* longest batch of a Data object

Modes == 0..MaxMode

-----------------------------------------------------------------------------
(* Outcomes: a returned value or a raised exception *)

Ok(v) == [err |-> "", val |-> v]
Err(e) == [err |-> e, val |-> <<>>]
IsOk(o) == o.err = ""

\* o.then(F): propagate an exception, otherwise continue with the value
Then(o, F(_)) == IF IsOk(o) THEN F(o.val) ELSE o

-----------------------------------------------------------------------------
(* Python values handed in as mode arguments *)

NoneArg == [kind |-> "None", elems |-> <<>>]
ListArg(s) == [kind |-> "list", elems |-> s]
TupleArg(s) == [kind |-> "tuple", elems |-> s]

Range(s) == {s[i] : i \in 1..Len(s)}

RECURSIVE Insert(_, _)
Insert(x, s) ==
    IF s = <<>> THEN <<x>>
    ELSE IF x <= Head(s) THEN <<x>> \o s
    ELSE <<Head(s)>> \o Insert(x, Tail(s))

\* Python's sorted() on a sequence: a list in non-decreasing order
RECURSIVE Sorted(_)
Sorted(s) == IF s = <<>> THEN <<>> ELSE Insert(Head(s), Sorted(Tail(s)))

\* sorted(S) for a set S of integers
RECURSIVE SortedSet(_)
SortedSet(S) ==
    IF S = {} THEN <<>>
    ELSE LET m == CHOOSE x \in S : \A y \in S : x <= y
         IN <<m>> \o SortedSet(S \ {m})

\* position of m in the list s (list.index), 1-based; 0 when absent
IndexOf(s, m) ==
    IF m \in Range(s) THEN CHOOSE i \in 1..Len(s) : s[i] = m /\ \A j \in 1..(i-1) : s[j] # m
    ELSE 0

-----------------------------------------------------------------------------
(* Wires *)

\* The four columns of the id table, in the order of Wires.__init__'s
\* arguments: out_bra, in_bra, out_ket, in_ket (0..3 in the program).
Cols == 1..4

\* a generator whose range starts at 0: rng.integers(0, 2**62)
RandintFromZero(n) == n % IdRange

\* settings.rng.integers(1, 2**62): the n-th integer of the generator's stream
Randint(n) == 1 + (n % IdRange)

\* `m != sorted(m)` as evaluated by the generator inside any(): comparing a
\* list with its sorted copy; a tuple never equals a list; sorted(None) raises.
Unsorted(a) ==
    IF a.kind = "list" THEN a.elems # Sorted(a.elems) ELSE TRUE

\* number of integers Wires.__init__ draws for the arguments a
Draws(a) ==
    LET modes == UNION {Range(a[k].elems) : k \in Cols}
    IN Cardinality({<<m, k>> \in modes \X Cols : m \in Range(a[k].elems)})

\* Wires.__init__: the sortedness check, the mode list, the id table with one
\* fresh integer per present slot (drawn column by column, modes ascending),
\* and the all-ones mask.  `s` is the sequence of integers that the calls of
\* randint return, in the order of the calls.
WiresWith(a, s) ==
    LET bad == {k \in Cols : a[k].kind = "None" \/ Unsorted(a[k])}
        first == CHOOSE k \in bad : \A j \in bad : k <= j
        modes == SortedSet(UNION {Range(a[k].elems) : k \in Cols})
        present(r, k) == modes[r] \in Range(a[k].elems)
        before(r, k) ==
            Cardinality({<<r2, k2>> \in (1..Len(modes)) \X Cols :
                present(r2, k2) /\ (k2 < k \/ (k2 = k /\ r2 < r))})
    IN IF bad # {}
       THEN IF a[first].kind = "None" THEN Err("TypeError") ELSE Err("ValueError")
       ELSE Ok([modes |-> modes,
                ids |-> [r \in 1..Len(modes) |->
                            [k \in Cols |-> IF present(r, k)
                                            THEN s[1 + before(r, k)] ELSE 0]],
                mask |-> [r \in 1..Len(modes) |-> [k \in Cols |-> 1]]])

\* Wires.__init__ when the generator stands at position n of the stream Randint
WiresInit(a, n) == WiresWith(a, [i \in 1..Draws(a) |-> Randint(n + i - 1)])

\* Wires.ids: the id table times the mask
Ids(x) == [r \in 1..Len(x.modes) |-> [k \in Cols |-> x.ids[r][k] * x.mask[r][k]]]

\* Wires.modes: the modes with at least one positive id
ModesOf(x) ==
    LET act == {r \in 1..Len(x.modes) : \E k \in Cols : Ids(x)[r][k] > 0}
    IN SortedSet({x.modes[r] : r \in act})

\* Wires.new(ids): a Wires on the same modes with the given id table and a copy
\* of the mask
NewWith(x, ids) == [modes |-> x.modes, ids |-> ids, mask |-> x.mask]

\* Wires.masked_view: the arrays of a Wires without modes are one-dimensional
\* (np.array([])), so indexing them with two indices raises IndexError.
MaskedView(x, rows, cols) ==
    IF Len(x.modes) = 0 THEN Err("IndexError")
    ELSE Ok([NewWith(x, x.ids) EXCEPT !.mask =
                [r \in 1..Len(x.modes) |->
                    [k \in Cols |-> IF r \in rows \/ k \in cols THEN -1 ELSE x.mask[r][k]]]])

Input(x) == MaskedView(x, {}, {1, 3})
Output(x) == MaskedView(x, {}, {2, 4})
Ket(x) == MaskedView(x, {}, {1, 2})
Bra(x) == MaskedView(x, {}, {3, 4})

\* Wires.__getitem__(modes): mask the rows of the other modes
GetItem(x, ms) ==
    MaskedView(x, {IndexOf(x.modes, m) : m \in Range(x.modes) \ ms}, {})

\* the column permutations of adjoint and dual, as written in the program
\* (0-based [1, 0, 3, 2] and [2, 3, 0, 1])
AdjointPerm == <<2, 1, 4, 3>>
DualPerm == <<3, 4, 1, 2>>

\* self._ids[:, perm] and self.mask[:, perm]
Permuted(x, perm) ==
    IF Len(x.modes) = 0 THEN Err("IndexError")
    ELSE Ok([modes |-> x.modes,
             ids |-> [r \in 1..Len(x.modes) |-> [k \in Cols |-> x.ids[r][perm[k]]]],
             mask |-> [r \in 1..Len(x.modes) |-> [k \in Cols |-> x.mask[r][perm[k]]]]])

Adjoint(x) == Permuted(x, AdjointPerm)
Dual(x) == Permuted(x, DualPerm)

\* chained views ending in .modes, e.g. x.ket.input.modes
KetInputModes(x) == Then(Then(Ket(x), Input), LAMBDA v : Ok(ModesOf(v)))
KetOutputModes(x) == Then(Then(Ket(x), Output), LAMBDA v : Ok(ModesOf(v)))
BraInputModes(x) == Then(Then(Bra(x), Input), LAMBDA v : Ok(ModesOf(v)))
BraOutputModes(x) == Then(Then(Bra(x), Output), LAMBDA v : Ok(ModesOf(v)))

\* Wires.new() without ids: a Wires constructed from the modes of the four
\* groups of active wires, with fresh ids (the integers s), and a copy of the
\* mask of self
New(x, s) ==
    Then(BraOutputModes(x), LAMBDA bo :
    Then(BraInputModes(x), LAMBDA bi :
    Then(KetOutputModes(x), LAMBDA ko :
    Then(KetInputModes(x), LAMBDA ki :
    Then(WiresWith(<<ListArg(bo), ListArg(bi), ListArg(ko), ListArg(ki)>>, s),
         LAMBDA v : Ok([v EXCEPT !.mask = x.mask]))))))

\* self.ids.ravel(), without the transposition: the id table row after row
FlatRowMajor(x) ==
    LET n == Len(x.modes)
    IN [i \in 1..(4 * n) |-> Ids(x)[((i - 1) \div 4) + 1][((i - 1) % 4) + 1]]

\* self.ids.T.ravel(): the id table column after column
Flat(x) ==
    LET n == Len(x.modes)
    IN [i \in 1..(4 * n) |-> Ids(x)[((i - 1) % n) + 1][((i - 1) \div n) + 1]]

NonZero(v) == v # 0

\* Wires.indices: the zero entries are dropped from the flattened table, the
\* (0-based) positions of the positive entries are returned in ascending order
Indices(x) ==
    LET flat == SelectSeq(Flat(x), NonZero)
    IN SortedSet({i - 1 : i \in {j \in 1..Len(flat) : flat[j] > 0}})

\* one of the views .input, .output, .ket, .bra, [modes]
View(x, v) ==
    CASE v.view = "input" -> Input(x)
      [] v.view = "output" -> Output(x)
      [] v.view = "ket" -> Ket(x)
      [] v.view = "bra" -> Bra(x)
      [] v.view = "getitem" -> GetItem(x, v.modes)

\* a chain of views x.v1.v2...., e.g. x.bra.output
RECURSIVE ViewChain(_, _)
ViewChain(o, chain) ==
    IF chain = <<>> \/ ~IsOk(o) THEN o
    ELSE ViewChain(View(o.val, Head(chain)), Tail(chain))

-----------------------------------------------------------------------------
(* Representations and transformations (mrmustard.physics.representations *)
(* and mrmustard.lab_dev.transformations)                                  *)

NoRep == [kind |-> "None"]
RepKinds == {"Bargmann", "Fock"}
Rep(kind) == [kind |-> kind]

\* representation.conj(): a representation of the same kind; None has no conj
RepConj(rep) == IF rep.kind = "None" THEN Err("AttributeError") ELSE Ok(rep)

\* a Unitary, a Channel or a plain component acting on the given modes
Transformation(cls, modes) == [cls |-> cls, modes |-> modes]

-----------------------------------------------------------------------------
(* CircuitComponent *)

\* CircuitComponent.__init__(name, modes_out_bra, modes_in_bra, modes_out_ket,
\* modes_in_ket, representation): the four mode arguments (None when omitted)
\* go to Wires in this order.
CCInit(cls, name, a, rep, n) ==
    Then(WiresInit(a, n),
         LAMBDA wv : Ok([cls |-> cls, name |-> name, wires |-> wv, rep |-> rep]))

\* CircuitComponent.from_ABC: its keyword parameters, in the order (in_ket,
\* out_ket, in_bra, out_bra), are handed on positionally.
FromABC(name, in_ket, out_ket, in_bra, out_bra, n) ==
    CCInit("CircuitComponent", name, <<in_ket, out_ket, in_bra, out_bra>>,
           Rep("Bargmann"), n)

\* CircuitComponent.from_attributes: CircuitComponent(name), then the wires and
\* the representation are set.
FromAttributes(name, wv, rep, n) ==
    Then(CCInit("CircuitComponent", name, <<NoneArg, NoneArg, NoneArg, NoneArg>>, NoRep, n),
         LAMBDA c : Ok([c EXCEPT !.wires = wv, !.rep = rep]))

\* Ket.__init__(name, modes) and DM.__init__(name, modes)
KetInit(name, modes, n) ==
    CCInit("Ket", name, <<NoneArg, NoneArg, modes, NoneArg>>, NoRep, n)
DMInit(name, modes, n) ==
    CCInit("DM", name, <<modes, NoneArg, modes, NoneArg>>, NoRep, n)

\* self.wires.copy() in light_copy: Wires defines no attribute `copy`
WiresCopy(x) == Err("AttributeError")

\* CircuitComponent.light_copy: same class and attributes, the wires copied
LightCopy(c) == Then(WiresCopy(c.wires), LAMBDA wv : Ok([c EXCEPT !.wires = wv]))

\* CircuitComponent.adjoint
CCAdjoint(c, n) ==
    Then(LightCopy(c), LAMBDA ret :
    Then(Adjoint(ret.wires), LAMBDA wv :
    Then(RepConj(ret.rep), LAMBDA rp :
         FromAttributes(Append(ret.name, "_adj"), wv, rp, n))))

\* CircuitComponent.dual
CCDual(c) ==
    Then(LightCopy(c), LAMBDA ret :
    Then(Dual(ret.wires), LAMBDA wv :
    Then(RepConj(ret.rep), LAMBDA rp :
         Ok([ret EXCEPT !.name = Append(@, "_dual"), !.wires = wv, !.rep = rp]))))

\* CircuitComponent.__getitem__
CCGetItem(c, ms) ==
    Then(LightCopy(c), LAMBDA ret :
    Then(GetItem(c.wires, ms), LAMBDA wv : Ok([ret EXCEPT !.wires = wv])))

\* a Wires class that supports `>>`: the wires of the left operand stand
\* for the composed wires
WiresRshiftDefined(a, b) == Ok(a)

\* `self.wires >> other.wires` in __matmul__: Wires defines no __rshift__, so
\* Python raises TypeError (unsupported operand types)
WiresRshift(a, b) == Err("TypeError")

\* the mode sets looked up by __matmul__ before the representations are
\* compared (self.wires.ket.output.modes, other.wires.ket.input.modes, ...)
ContractedModes(l, r) ==
    Then(KetOutputModes(l.wires), LAMBDA ko :
    Then(KetInputModes(r.wires), LAMBDA ki :
    Then(BraOutputModes(l.wires), LAMBDA bo :
    Then(BraInputModes(r.wires), LAMBDA bi :
         Ok([ket |-> Range(ko) \cap Range(ki), bra |-> Range(bo) \cap Range(bi)])))))

\* CircuitComponent.__matmul__: the wires of the result, the contracted modes,
\* the check of the two representations, the contraction, from_attributes
Matmul(l, r, n) ==
    Then(WiresRshift(l.wires, r.wires), LAMBDA wr :
    Then(ContractedModes(l, r), LAMBDA cm :
         IF \/ l.rep.kind = "Bargmann" /\ r.rep.kind = "Fock"
            \/ l.rep.kind = "Fock" /\ r.rep.kind = "Bargmann"
         THEN Err("ValueError")
         ELSE FromAttributes(<<>>, wr, l.rep, n)))   \* name "", contracted representation

\* bool() of a numpy array: an array of more than one element has no truth value
ArrayTruth(table) ==
    IF Len(table) = 0 THEN Ok(FALSE) ELSE Err("ValueError")

\* `if component.wires[mode].ket.ids:` (and the same for bra) in connect
ConnectTest(c, m) ==
    Then(GetItem(c.wires, {m}), LAMBDA v :
    Then(Ket(v), LAMBDA k : ArrayTruth(Ids(k))))

\* connect: light copies of all components, then for every component and every
\* mode of it the test above.  The test never yields True (it raises on every
\* Wires that has a mode), so no id is ever rewritten.
RECURSIVE ConnectLoop(_, _)
ConnectLoop(ret, i) ==
    IF i > Len(ret) THEN Ok(ret)
    ELSE LET ms == ModesOf(ret[i].wires)
         IN IF ms = <<>> THEN ConnectLoop(ret, i + 1)
            ELSE Then(ConnectTest(ret[i], ms[1]), LAMBDA b : ConnectLoop(ret, i + 1))

Connect(cs) ==
    LET copies == [i \in 1..Len(cs) |-> LightCopy(cs[i])]
        bad == {i \in 1..Len(cs) : ~IsOk(copies[i])}
    IN IF bad # {}
       THEN copies[CHOOSE i \in bad : \A j \in bad : i <= j]
       ELSE ConnectLoop([i \in 1..Len(cs) |-> copies[i].val], 1)

\* bool() of a Wires object: it defines neither __bool__ nor __len__
WiresTruth(x) == TRUE

\* add_bra: a light copy of every component, followed by the component's
\* adjoint when `not component.wires.bra`
RECURSIVE AddBraLoop(_, _, _, _)
AddBraLoop(cs, i, ret, n) ==
    IF i > Len(cs) THEN Ok(ret)
    ELSE Then(LightCopy(cs[i]), LAMBDA lc :
         Then(Bra(cs[i].wires), LAMBDA b :
              IF ~WiresTruth(b)
              THEN Then(CCAdjoint(cs[i], n), LAMBDA adj :
                        AddBraLoop(cs, i + 1, ret \o <<lc, adj>>, n))
              ELSE AddBraLoop(cs, i + 1, Append(ret, lc), n)))

AddBra(cs, n) == AddBraLoop(cs, 1, <<>>, n)

\* super().__rshift__(other) in Ket.__rshift__ and DM.__rshift__:
\* CircuitComponent defines no __rshift__
CCRshift(s, t) == Err("AttributeError")

ActsOnModesOf(t, s) == Range(t.modes) \subseteq Range(ModesOf(s.wires))

\* Ket.__rshift__
KetRshift(s, t, n) ==
    Then(CCRshift(s, t), LAMBDA comp :
         IF t.cls = "Unitary" /\ ActsOnModesOf(t, s)
         THEN Then(KetInit(comp.name, ListArg(<<>>), n),
                   LAMBDA k : Ok([k EXCEPT !.wires = comp.wires, !.rep = comp.rep]))
         ELSE IF t.cls = "Channel" /\ ActsOnModesOf(t, s)
         THEN Then(DMInit(comp.name, ListArg(<<>>), n),
                   LAMBDA d : Ok([d EXCEPT !.wires = comp.wires, !.rep = comp.rep]))
         ELSE Ok(comp))

\* DM.__rshift__
DMRshift(s, t, n) ==
    Then(CCRshift(s, t), LAMBDA comp :
         IF t.cls \in {"Unitary", "Channel"} /\ ActsOnModesOf(t, s)
         THEN Then(DMInit(comp.name, ListArg(<<>>), n),
                   LAMBDA d : Ok([d EXCEPT !.wires = comp.wires, !.rep = comp.rep]))
         ELSE Ok(comp))

-----------------------------------------------------------------------------
(* The Data algebra (mrmustard/math/datatypes.py)                           *)
(*                                                                         *)
(* A batched array is a sequence of items: matrices (sequences of rows),   *)
(* vectors (sequences of numbers) or numbers.  The entries are integers,   *)
(* counted in units of the tolerance of np.allclose.                       *)

\* np.allclose on two entries: they differ by at most the tolerance
Tol == 1
Close(x, y) == x - y <= Tol /\ y - x <= Tol

\* np.allclose on two items of the same shape (numbers, vectors or matrices)
CloseVec(u, v) == \A i \in 1..Len(u) : Close(u[i], v[i])
CloseMat(a, b) == \A i \in 1..Len(a) : CloseVec(a[i], b[i])

\* numpy broadcasting along the batch axis: the lengths agree or one is 1
Broadcastable(a, b) == Len(a) = Len(b) \/ Len(a) = 1 \/ Len(b) = 1
BroadcastLen(a, b) == IF Len(a) = 1 THEN Len(b) ELSE Len(a)
At(a, i) == IF Len(a) = 1 THEN a[1] ELSE a[i]

\* np.allclose(a, b) on two batches of matrices, of vectors, of numbers:
\* ValueError when the shapes cannot be broadcast
AllCloseMat(a, b) ==
    IF ~Broadcastable(a, b) THEN Err("ValueError")
    ELSE Ok(\A i \in 1..BroadcastLen(a, b) : CloseMat(At(a, i), At(b, i)))
AllCloseVec(a, b) ==
    IF ~Broadcastable(a, b) THEN Err("ValueError")
    ELSE Ok(\A i \in 1..BroadcastLen(a, b) : CloseVec(At(a, i), At(b, i)))
AllCloseNum(a, b) ==
    IF ~Broadcastable(a, b) THEN Err("ValueError")
    ELSE Ok(\A i \in 1..BroadcastLen(a, b) : Close(At(a, i), At(b, i)))

\* a + b on two arrays of numbers, with broadcasting
ArrayAdd(a, b) ==
    IF ~Broadcastable(a, b) THEN Err("ValueError")
    ELSE Ok([i \in 1..BroadcastLen(a, b) |-> At(a, i) + At(b, i)])

\* MatVecData.__init__ and the constructors of its subclasses GaussianData
\* (cov, mean, coeff) and QuadraticPolyData (A, b, c), which hand their
\* arguments to it
MatVecData(cls, mat, vec, coeff) ==
    [cls |-> cls, mat |-> mat, vec |-> vec, coeff |-> coeff]

DataClasses == {"MatVecData", "GaussianData", "QuadraticPolyData"}
IsMatVec(x) == x.cls \in DataClasses

\* reading other.mat, other.vec, other.coeff: an object without these
\* attributes raises AttributeError
HasMatVecAttrs(x) == {"mat", "vec", "coeff"} \subseteq DOMAIN x

\* MatVecData.__add__
MatVecAdd(self, other) ==
    IF ~HasMatVecAttrs(other) THEN Err("AttributeError")
    ELSE Then(AllCloseMat(self.mat, other.mat), LAMBDA cm :
         Then(IF cm THEN AllCloseVec(self.vec, other.vec) ELSE Ok(FALSE), LAMBDA cv :
              IF cv
              THEN Then(ArrayAdd(self.coeff, other.coeff), LAMBDA c :
                        Ok(MatVecData("MatVecData", self.mat, self.vec, c)))
              ELSE Ok(MatVecData("MatVecData", self.mat \o other.mat,
                                 self.vec \o other.vec, self.coeff \o other.coeff))))

\* set.pop() on a set of small non-negative integers: its least element
Pop(S) == CHOOSE i \in S : \A j \in S : i <= j

\* an inner loop that stops at the first index it merges (a `break` after
\* removed.add(j))
CloseToFirst(self, i, S) ==
    LET all == {j \in S : CloseMat(self.mat[i], self.mat[j])
                            /\ CloseVec(self.vec[i], self.vec[j])}
    IN IF all = {} THEN {} ELSE {Pop(all)}

\* the inner loop of simplify for the popped index i: the indices j still to
\* check whose matrix and vector are close to those of i
CloseTo(self, i, S) ==
    {j \in S : CloseMat(self.mat[i], self.mat[j]) /\ CloseVec(self.vec[i], self.vec[j])}

RECURSIVE SumOver(_, _)
SumOver(c, S) ==
    IF S = {} THEN 0 ELSE LET j == Pop(S) IN c[j] + SumOver(c, S \ {j})

\* the while loop of simplify: the indices to check, the indices removed, the
\* coefficients updated in place
RECURSIVE SimplifyLoop(_, _, _, _)
SimplifyLoop(self, to_check, removed, coeff) ==
    IF to_check = {} THEN [removed |-> removed, coeff |-> coeff]
    ELSE LET i == Pop(to_check)
             merged == CloseTo(self, i, to_check \ {i})
         IN SimplifyLoop(self, (to_check \ {i}) \ merged, removed \cup merged,
                         [coeff EXCEPT ![i] = @ + SumOver(coeff, merged)])

\* a[to_keep] for an ascending list of indices
RECURSIVE Keep(_, _)
Keep(a, removed) ==
    IF a = <<>> THEN <<>>
    ELSE Keep(SubSeq(a, 1, Len(a) - 1), removed)
            \o (IF Len(a) \in removed THEN <<>> ELSE <<a[Len(a)]>>)

\* MatVecData.simplify: the object after the call
Simplify(self) ==
    LET res == SimplifyLoop(self, 1..Len(self.mat), {}, self.coeff)
    IN [self EXCEPT !.mat = Keep(self.mat, res.removed),
                    !.vec = Keep(self.vec, res.removed),
                    !.coeff = Keep(res.coeff, res.removed)]

\* MatVecData.__eq__
MatVecEq(self, other) ==
    IF ~HasMatVecAttrs(other) THEN Err("AttributeError")
    ELSE Then(AllCloseMat(self.mat, other.mat), LAMBDA cm :
         Then(IF cm THEN AllCloseVec(self.vec, other.vec) ELSE Ok(FALSE), LAMBDA cv :
              IF cv THEN AllCloseNum(self.coeff, other.coeff) ELSE Ok(FALSE)))

\* math.block_diag([c1, c2])
BlockDiag(c1, c2) ==
    LET n == Len(c1)
        m == Len(c2)
    IN [i \in 1..(n + m) |-> [j \in 1..(n + m) |->
            IF i <= n /\ j <= n THEN c1[i][j]
            ELSE IF i > n /\ j > n THEN c2[i - n][j - n]
            ELSE 0]]

\* the nested loops of __and__ over two batches: the pair (i, j) lands at
\* position (i - 1) * Len(b) + j
Pairs(a, b, F(_, _)) ==
    [p \in 1..(Len(a) * Len(b)) |->
        F(a[((p - 1) \div Len(b)) + 1], b[((p - 1) % Len(b)) + 1])]

Times(x, y) == x * y
Joined(u, v) == u \o v

\* the attribute `mean`: a property of GaussianData only
HasMean(x) == IsMatVec(x) /\ x.cls = "GaussianData"

\* MatVecData.__and__
MatVecAnd(self, other) ==
    IF ~HasMatVecAttrs(other) THEN Err("AttributeError")
    ELSE IF ~HasMean(self) \/ ~HasMean(other) THEN Err("AttributeError")
    ELSE Ok(MatVecData(self.cls,
                       Pairs(self.mat, other.mat, BlockDiag),
                       Pairs(self.vec, other.vec, Joined),
                       Pairs(self.coeff, other.coeff, Times)))

\* operands that are not Data objects
Scalar(k) == [cls |-> "int", val |-> k]
PlainObject == [cls |-> "object"]
IsScalar(x) == x.cls = "int"

\* `isinstance(other, Number)` in datatypes.py: the name Number is neither
\* imported nor defined in the module
IsNumber(x) == Err("NameError")

\* the product of two GaussianData objects (the covariances, means and
\* coefficients computed by __mul__), left uninterpreted
GaussianProduct(self, other) == [cls |-> "GaussianData", product |-> <<self, other>>]

\* GaussianData.__mul__
GaussianMul(self, other) ==
    Then(IsNumber(other), LAMBDA num :
         IF num
         THEN Ok(MatVecData("GaussianData", self.mat, self.vec,
                            [i \in 1..Len(self.coeff) |-> self.coeff[i] * other.val]))
         ELSE IF other.cls = "GaussianData" THEN Ok(GaussianProduct(self, other))
         ELSE Err("TypeError"))

\* QuadraticPolyData.__mul__: both branches read self.c, and the class
\* defines the properties A and b only
QuadraticPolyMul(self, other) ==
    Then(IsNumber(other), LAMBDA num :
         IF num \/ other.cls = "QuadraticPolyData" THEN Err("AttributeError")
         ELSE Err("TypeError"))

\* self * other for the classes of datatypes.py: MatVecData itself defines
\* no __mul__
DataMul(self, other) ==
    IF self.cls = "GaussianData" THEN GaussianMul(self, other)
    ELSE IF self.cls = "QuadraticPolyData" THEN QuadraticPolyMul(self, other)
    ELSE Err("TypeError")

\* an operator that none of the classes of datatypes.py defines for its left
\* operand (MatVecData and its subclasses define neither __sub__ nor
\* __truediv__): Python raises TypeError
Unsupported(self, other) == Err("TypeError")

\* SamplesData(x, y): a function sampled on the points x with the values y
SamplesData(x, y) == [cls |-> "SamplesData", x |-> x, y |-> y]
IsSamples(x) == x.cls = "SamplesData"

\* the value None
None == [cls |-> "NoneType"]

\* SamplesData.intersect_domains for two objects sampled on the same points
\* (as all SamplesData objects here are): the union of the two domains cut to
\* their common range is that set of points, and evaluating self(x) and
\* other(x) there interpolates nothing
IntersectDomains(self, other) == self.x

\* a quotient of two numbers, kept as the pair (numerator, denominator)
Quotient(a, b) == <<a, b>>

\* SamplesData.__add__
SamplesAdd(self, other) ==
    IF IsSamples(other)
    THEN Ok(SamplesData(IntersectDomains(self, other), [i \in 1..Len(self.y) |-> self.y[i] + other.y[i]]))
    ELSE IF IsScalar(other)
    THEN Ok(SamplesData(self.x, [i \in 1..Len(self.y) |-> self.y[i] + other.val]))
    ELSE Err("TypeError")

\* SamplesData.__mul__
SamplesMul(self, other) ==
    IF IsSamples(other)
    THEN Ok(SamplesData(IntersectDomains(self, other), [i \in 1..Len(self.y) |-> self.y[i] * other.y[i]]))
    ELSE IF IsScalar(other)
    THEN Ok(SamplesData(self.x, [i \in 1..Len(self.y) |-> self.y[i] * other.val]))
    ELSE Err("TypeError")

\* -other: SamplesData.__neg__, the negation of a number; the other classes
\* define no __neg__
Neg(other) ==
    IF IsSamples(other) THEN Ok(SamplesData(other.x, [i \in 1..Len(other.y) |-> -other.y[i]]))
    ELSE IF IsScalar(other) THEN Ok(Scalar(-other.val))
    ELSE Err("TypeError")

\* SamplesData.__sub__: self + (-other)
SamplesSub(self, other) == Then(Neg(other), LAMBDA n : SamplesAdd(self, n))

\* SamplesData.__truediv__: for an operand that is neither a SamplesData nor
\* a number no branch assigns x, and `len(x)` raises UnboundLocalError
SamplesTrueDiv(self, other) ==
    IF IsSamples(other)
    THEN Ok(SamplesData(IntersectDomains(self, other), [i \in 1..Len(self.y) |-> Quotient(self.y[i], other.y[i])]))
    ELSE IF IsScalar(other)
    THEN Ok(SamplesData(self.x, [i \in 1..Len(self.y) |-> Quotient(self.y[i], other.val)]))
    ELSE Err("UnboundLocalError")

\* SamplesData.__rtruediv__(self, other), evaluated for other / self when other
\* defines no __truediv__: it returns None unless other is a number
SamplesRTrueDiv(self, other) ==
    IF IsScalar(other)
    THEN Ok(SamplesData(self.x, [i \in 1..Len(self.y) |-> Quotient(other.val, self.y[i])]))
    ELSE Ok(None)

\* self + other, self == other, self & other, self * other, self - other and
\* self / other as Python dispatches them on the class of self
DataAdd(self, other) ==
    IF IsSamples(self) THEN SamplesAdd(self, other) ELSE MatVecAdd(self, other)

\* SamplesData defines no __eq__: Python asks the other operand, and compares
\* the identities of the two (distinct) objects when it does not answer
DataEq(self, other) ==
    IF IsMatVec(self) THEN MatVecEq(self, other)
    ELSE IF IsMatVec(other) THEN MatVecEq(other, self)
    ELSE Ok(FALSE)

\* SamplesData defines no __and__
DataAnd(self, other) ==
    IF IsSamples(self) THEN Err("TypeError") ELSE MatVecAnd(self, other)

\* MatVecData defines no __mul__: Python asks the other operand for __rmul__,
\* which SamplesData defines as self * other
DataTimes(self, other) ==
    IF IsSamples(self) THEN SamplesMul(self, other)
    ELSE IF self.cls = "MatVecData" /\ IsSamples(other) THEN SamplesMul(other, self)
    ELSE DataMul(self, other)

\* MatVecData and its subclasses define no __sub__: Python asks the other
\* operand for __rsub__, which SamplesData defines as other + (-self)
DataSub(self, other) ==
    IF IsSamples(self) THEN SamplesSub(self, other)
    ELSE IF IsSamples(other) THEN Then(Neg(other), LAMBDA n : DataAdd(self, n))
    ELSE Unsupported(self, other)

\* MatVecData and its subclasses define no __truediv__: Python asks the other
\* operand for __rtruediv__
DataTrueDiv(self, other) ==
    IF IsSamples(self) THEN SamplesTrueDiv(self, other)
    ELSE IF IsSamples(other) THEN SamplesRTrueDiv(other, self)
    ELSE Unsupported(self, other)

\* QPolyData(A, b, c) of lab/representations/data/qpoly_data.py
QPolyData(A, b, c) == [cls |-> "QPolyData", mat |-> A, vec |-> b, coeffs |-> c]

\* QPolyData.__mul__: with another QPolyData (of the same shapes) the sums
\* of the matrices and of the vectors and the products of the coefficients;
\* with a number the coefficients times the number; TypeError otherwise
QPolyMul(self, other) ==
    IF other.cls = "QPolyData"
    THEN Ok(QPolyData(
            [i \in 1..Len(self.mat) |-> [r \in 1..Len(self.mat[i]) |->
                [c \in 1..Len(self.mat[i]) |-> self.mat[i][r][c] + other.mat[i][r][c]]]],
            [i \in 1..Len(self.vec) |-> [r \in 1..Len(self.vec[i]) |->
                self.vec[i][r] + other.vec[i][r]]],
            [i \in 1..Len(self.coeffs) |-> self.coeffs[i] * other.coeffs[i]]))
    ELSE IF IsScalar(other)
    THEN Ok(QPolyData(self.mat, self.vec,
                      [i \in 1..Len(self.coeffs) |-> self.coeffs[i] * other.val]))
    ELSE Err("TypeError")

-----------------------------------------------------------------------------
(* Inputs *)

RECURSIVE SeqsUpTo(_, _)
SeqsUpTo(S, n) ==
    IF n = 0 THEN {<<>>}
    ELSE LET shorter == SeqsUpTo(S, n - 1)
         IN shorter \cup {Append(s, x) : s \in shorter, x \in S}

NoRepeat(s) == Cardinality(Range(s)) = Len(s)

\* mode lists without repetition
ModeLists == {s \in SeqsUpTo(Modes, MaxLen) : NoRepeat(s)}

ModeArgs == {ListArg(s) : s \in ModeLists} \cup {TupleArg(<<0, 1>>), NoneArg}

NoWires == Err("unset")
NoComp == [cls |-> "none"]
NoData == [cls |-> "none"]
NoState == [cls |-> "none"]
NoOp == [op |-> "none", in |-> <<>>, out |-> Err("unset")]

\* the views and the chains of at most n views
Views ==
    {[view |-> v] : v \in {"input", "output", "ket", "bra"}}
        \cup {[view |-> "getitem", modes |-> ms] : ms \in SUBSET Modes}
ViewChains(n) == SeqsUpTo(Views, n)

-----------------------------------------------------------------------------
(* The Wires session: construct one Wires, then query it *)

WInit ==
    /\ args \in ModeArgs \X ModeArgs \X ModeArgs \X ModeArgs
    /\ w = NoWires
    /\ rng = 0
    /\ L = NoComp
    /\ R = NoComp
    /\ ws = <<>>
    /\ data = NoData
    /\ heap = <<>>
    /\ objs = <<>>
    /\ st = NoState
    /\ last = NoOp

\* w = Wires(*args)
WConstruct ==
    /\ last.op = "none"
    /\ w' = WiresInit(args, rng)
    /\ rng' = IF IsOk(w') THEN rng + Draws(args) ELSE rng
    /\ last' = [op |-> "__init__", in |-> args, out |-> w']
    /\ UNCHANGED <<args, L, R, idle>>

WApply(name, x, out) ==
    /\ IsOk(w)
    /\ last' = [op |-> name, in |-> x, out |-> out]
    /\ UNCHANGED <<args, w, rng, L, R, idle>>

WAdjoint == WApply("adjoint", <<>>, Adjoint(w.val))
WDual == WApply("dual", <<>>, Dual(w.val))
WInput == WApply("input", <<>>, Input(w.val))
WOutput == WApply("output", <<>>, Output(w.val))
WKet == WApply("ket", <<>>, Ket(w.val))
WBra == WApply("bra", <<>>, Bra(w.val))
WGetItem == \E ms \in SUBSET Modes : WApply("getitem", ms, GetItem(w.val, ms))

\* The operations below read w and assign nothing but `last`, so each of them
\* is evaluated right after the construction: evaluating it after another
\* operation reaches no further state.
Constructed == last.op = "__init__"

\* chains of views such as w.bra.output and w[modes].ket
WViews ==
    \E chain \in ViewChains(MaxChain) \ {<<>>} :
        /\ Constructed
        /\ WApply("views", chain, ViewChain(w, chain))

\* v.adjoint.adjoint and v.dual.dual for w and its views
WAdjointTwice ==
    \E chain \in ViewChains(1) :
        /\ Constructed
        /\ WApply("adjoint.adjoint", chain,
                  Then(Then(ViewChain(w, chain), Adjoint), Adjoint))

WDualTwice ==
    \E chain \in ViewChains(1) :
        /\ Constructed
        /\ WApply("dual.dual", chain, Then(Then(ViewChain(w, chain), Dual), Dual))

WNext ==
    \/ WConstruct
    \/ WViews
    \/ WAdjointTwice
    \/ WDualTwice
    \/ WAdjoint
    \/ WDual
    \/ WInput
    \/ WOutput
    \/ WKet
    \/ WBra
    \/ WGetItem

WiresSpec == WInit /\ [][WNext]_vars

-----------------------------------------------------------------------------
(* The session of views: construct one Wires from sorted mode lists, take  *)
(* views of it, and of the views, and read the indices of the Wires at     *)
(* hand.                                                                   *)

SortedArgs == {ListArg(SortedSet(S)) : S \in SUBSET Modes}

\* the views taken in this session: the four column views and w[m] for a
\* single mode m
StepViews == {v \in Views : v.view = "getitem" => Cardinality(v.modes) = 1}

XInit ==
    /\ args \in SortedArgs \X SortedArgs \X SortedArgs \X SortedArgs
    /\ w = NoWires
    /\ rng = 0
    /\ L = NoComp
    /\ R = NoComp
    /\ ws = <<>>
    /\ data = NoData
    /\ heap = <<>>
    /\ objs = <<>>
    /\ st = NoState
    /\ last = NoOp

\* w = Wires(*args)
XConstruct ==
    /\ last.op = "none"
    /\ w' = WiresInit(args, rng)
    /\ rng' = rng + Draws(args)
    /\ last' = [op |-> "__init__", in |-> <<>>, out |-> w']
    /\ UNCHANGED <<args, L, R, idle>>

\* w = w.input, w = w.output, w = w.ket, w = w.bra, w = w[modes]: the view
\* replaces the Wires at hand, unless it raises
XView ==
    \E v \in StepViews :
        /\ IsOk(w)
        /\ last.op # "indices"
        /\ w' = IF IsOk(View(w.val, v)) THEN View(w.val, v) ELSE w
        /\ last' = [op |-> "view", in |-> <<>>, out |-> View(w.val, v)]
        /\ UNCHANGED <<args, rng, L, R, idle>>

\* w.indices
XIndices ==
    /\ IsOk(w)
    /\ last.op # "indices"
    /\ last' = [op |-> "indices", in |-> <<>>, out |-> Ok(Indices(w.val))]
    /\ UNCHANGED <<args, w, rng, L, R, idle>>

XNext ==
    \/ XConstruct
    \/ XView
    \/ XIndices

IndexSpec == XInit /\ [][XNext]_vars

-----------------------------------------------------------------------------
(* The session of constructions: Wires objects are constructed one after   *)
(* the other, by Wires(...) and by Wires.new(); every call of randint      *)
(* returns some integer of the id space.                                   *)

IdArgs == {ListArg(<<>>), ListArg(<<0>>)}
IdValues == 1..IdChoices

\* number of calls of randint made by x.new()
NewDraws(x) ==
    Cardinality({<<r, k>> \in (1..Len(x.modes)) \X Cols : Ids(x)[r][k] > 0})

IdInit ==
    /\ args = <<ListArg(<<>>), ListArg(<<>>), ListArg(<<>>), ListArg(<<>>)>>
    /\ w = NoWires
    /\ rng = 0
    /\ L = NoComp
    /\ R = NoComp
    /\ ws = <<>>
    /\ data = NoData
    /\ heap = <<>>
    /\ objs = <<>>
    /\ st = NoState
    /\ last = NoOp

\* Wires(modes_out_bra, modes_in_bra, modes_out_ket, modes_in_ket)
IdConstruct ==
    \E a \in IdArgs \X IdArgs \X IdArgs \X IdArgs :
        \E s \in [1..Draws(a) -> IdValues] :
            /\ Len(ws) < MaxWires
            /\ ws' = Append(ws, WiresWith(a, s).val)
            /\ rng' = rng + Draws(a)
            /\ last' = [op |-> "Wires", in |-> a, out |-> WiresWith(a, s)]
            /\ UNCHANGED <<args, w, L, R, data, unused>>

\* ws[i].new()
IdNew ==
    \E i \in 1..Len(ws) :
        \E s \in [1..NewDraws(ws[i]) -> IdValues] :
            /\ Len(ws) < MaxWires
            /\ ws' = IF IsOk(New(ws[i], s)) THEN Append(ws, New(ws[i], s).val) ELSE ws
            /\ rng' = IF IsOk(New(ws[i], s)) THEN rng + NewDraws(ws[i]) ELSE rng
            /\ last' = [op |-> "new", in |-> i, out |-> New(ws[i], s)]
            /\ UNCHANGED <<args, w, L, R, data, unused>>

IdNext ==
    \/ IdConstruct
    \/ IdNew

IdSpec == IdInit /\ [][IdNext]_vars

-----------------------------------------------------------------------------
(* The component session: build up to two components, then operate on them *)

CompLists == {<<>>, <<0>>}
CompArgs == {NoneArg} \cup {ListArg(s) : s \in CompLists}
TransformationClasses == {"Unitary", "Channel", "CircuitComponent"}
StateModes == {<<0>>, <<1>>, <<0, 1>>}

Init ==
    /\ args = <<ListArg(<<>>), ListArg(<<>>), ListArg(<<>>), ListArg(<<>>)>>
    /\ w = NoWires
    /\ rng = 0
    /\ L = NoComp
    /\ R = NoComp
    /\ ws = <<>>
    /\ data = NoData
    /\ heap = <<>>
    /\ objs = <<>>
    /\ st = NoState
    /\ last = NoOp

\* the components built so far
Comps == {L, R} \ {NoComp}
CompSeqs ==
    {<<>>} \cup {<<c>> : c \in Comps} \cup {<<c, d>> : c \in Comps, d \in Comps}

FreshName == IF L = NoComp THEN <<"A">> ELSE <<"B">>

\* A failed constructor and an operation on components change nothing but
\* `last`, so every step is taken from a session whose last step built a
\* component: taking it after them reaches no further state.
Ready == last.op = "none" \/ IsOk(last.out)

\* keep a constructed component in the first free register
Store(out) ==
    IF ~IsOk(out) THEN UNCHANGED <<L, R>>
    ELSE IF L = NoComp THEN L' = out.val /\ R' = R
    ELSE R' = out.val /\ L' = L

\* CircuitComponent(name, modes_out_bra, modes_in_bra, modes_out_ket,
\*                  modes_in_ket, representation)
NewComponent ==
    \E a \in CompArgs \X CompArgs \X CompArgs \X CompArgs, k \in RepKinds :
        LET out == CCInit("CircuitComponent", FreshName, a, Rep(k), rng)
        IN /\ Ready
           /\ R = NoComp
           /\ Store(out)
           /\ rng' = IF IsOk(out) THEN rng + Draws(a) ELSE rng
           /\ last' = [op |-> "CircuitComponent", in |-> a, out |-> out]
           /\ UNCHANGED <<args, w, idle>>

\* CircuitComponent.from_ABC(name, A, B, c, modes_in_ket=.., modes_out_ket=..,
\*                           modes_in_bra=.., modes_out_bra=..)
NewFromABC ==
    \E a \in CompArgs \X CompArgs \X CompArgs \X CompArgs :
        LET out == FromABC(FreshName, a[1], a[2], a[3], a[4], rng)
        IN /\ Ready
           /\ R = NoComp
           /\ Store(out)
           /\ rng' = IF IsOk(out) THEN rng + Draws(a) ELSE rng
           /\ last' = [op |-> "from_ABC", in |-> a, out |-> out]
           /\ UNCHANGED <<args, w, idle>>

\* Ket(name, modes) and DM(name, modes)
NewKet ==
    \E ms \in CompLists :
        LET out == KetInit(FreshName, ListArg(ms), rng)
        IN /\ Ready
           /\ R = NoComp
           /\ Store(out)
           /\ rng' = IF IsOk(out) THEN rng + Len(ms) ELSE rng
           /\ last' = [op |-> "Ket", in |-> ms, out |-> out]
           /\ UNCHANGED <<args, w, idle>>

NewDM ==
    \E ms \in CompLists :
        LET out == DMInit(FreshName, ListArg(ms), rng)
        IN /\ Ready
           /\ R = NoComp
           /\ Store(out)
           /\ rng' = IF IsOk(out) THEN rng + 2 * Len(ms) ELSE rng
           /\ last' = [op |-> "DM", in |-> ms, out |-> out]
           /\ UNCHANGED <<args, w, idle>>

\* An operation on existing components: they are read, never assigned.
Apply(name, x, out) ==
    /\ Ready
    /\ last' = [op |-> name, in |-> x, out |-> out]
    /\ UNCHANGED <<args, w, rng, L, R, idle>>

CLightCopy == \E c \in Comps : Apply("light_copy", <<c>>, LightCopy(c))
CAdjoint == \E c \in Comps : Apply("adjoint", <<c>>, CCAdjoint(c, rng))
CDual == \E c \in Comps : Apply("dual", <<c>>, CCDual(c))
CGetItem ==
    \E c \in Comps, ms \in SUBSET Modes : Apply("getitem", <<c, ms>>, CCGetItem(c, ms))
CConnect == \E cs \in CompSeqs : Apply("connect", cs, Connect(cs))
CAddBra == \E cs \in CompSeqs : Apply("add_bra", cs, AddBra(cs, rng))
CMatmul == \E l \in Comps, r \in Comps : Apply("matmul", <<l, r>>, Matmul(l, r, rng))

\* the expressions Ket(name, ms) >> t and DM(name, ms) >> t for a
\* transformation t: the left operand is constructed first.  They read no
\* component of the session, so they are evaluated in the empty session.
KetRshiftExpr ==
    \E ms \in StateModes, cls \in TransformationClasses, tm \in StateModes :
        /\ Comps = {}
        /\ Apply("Ket>>", <<ms, Transformation(cls, tm)>>,
                 Then(KetInit(<<"K">>, ListArg(ms), rng),
                      LAMBDA s : KetRshift(s, Transformation(cls, tm), rng)))

DMRshiftExpr ==
    \E ms \in StateModes, cls \in TransformationClasses, tm \in StateModes :
        /\ Comps = {}
        /\ Apply("DM>>", <<ms, Transformation(cls, tm)>>,
                 Then(DMInit(<<"D">>, ListArg(ms), rng),
                      LAMBDA s : DMRshift(s, Transformation(cls, tm), rng)))

Next ==
    \/ NewComponent
    \/ NewFromABC
    \/ NewKet
    \/ NewDM
    \/ CLightCopy
    \/ CAdjoint
    \/ CDual
    \/ CGetItem
    \/ CConnect
    \/ CAddBra
    \/ CMatmul
    \/ KetRshiftExpr
    \/ DMRshiftExpr

Spec == Init /\ [][Next]_vars

-----------------------------------------------------------------------------
(* The inputs of the Data sessions: batches of terms with 1 x 1 matrices  *)
(* and vectors of length 1                                                 *)

Term(m, v, c) == [m |-> m, v |-> v, c |-> c]

\* the batched arrays mat, vec, coeff of a sequence of terms
BatchOf(cls, terms) ==
    MatVecData(cls, [i \in 1..Len(terms) |-> <<<<terms[i].m>>>>],
                    [i \in 1..Len(terms) |-> <<terms[i].v>>],
                    [i \in 1..Len(terms) |-> terms[i].c])

\* matrix entries 0, Tol, 2 * Tol (neighbours are within the tolerance, the
\* extremes are not), vector entries 0 and 2 * Tol, coefficients 1 and 2
Terms == {Term(m, v, c) : m \in 0..(2 * Tol), v \in {0, 2 * Tol}, c \in {1, 2}}
Batches(n) == SeqsUpTo(Terms, n) \ {<<>>}
AllData(n) == {BatchOf(cls, b) : cls \in DataClasses, b \in Batches(n)}

\* the operands of the binary operations: batches of three kinds of terms,
\* SamplesData objects on the points 0, 1, a number, an object without
\* attributes
FewTerms == {Term(0, 0, 1), Term(Tol, 0, 2), Term(2 * Tol, 2 * Tol, 1)}
FewBatches == SeqsUpTo(FewTerms, MaxBatch) \ {<<>>}
SomeSamples == {SamplesData(<<0, 1>>, <<1, 2>>), SamplesData(<<0, 1>>, <<2, 2>>)}
SelfInputs == {BatchOf(cls, b) : cls \in DataClasses, b \in FewBatches} \cup SomeSamples

\* for a MatVecData object the operands of its own class, for every object the
\* SamplesData objects, the number 2 and the object without attributes
Operands(self) ==
    (IF IsMatVec(self) THEN {BatchOf(self.cls, b) : b \in FewBatches} ELSE {})
        \cup SomeSamples \cup {Scalar(2), PlainObject}

-----------------------------------------------------------------------------
(* The session of simplify: a MatVecData object is simplified, twice *)

SInit ==
    /\ args = <<ListArg(<<>>), ListArg(<<>>), ListArg(<<>>), ListArg(<<>>)>>
    /\ w = NoWires
    /\ rng = 0
    /\ L = NoComp
    /\ R = NoComp
    /\ ws = <<>>
    /\ data \in AllData(MaxBatch)
    /\ heap = <<>>
    /\ objs = <<>>
    /\ st = NoState
    /\ last = NoOp

\* data.simplify(): the object is modified in place
DSimplify ==
    /\ last.op = "none"
    /\ data' = Simplify(data)
    /\ last' = [op |-> "simplify", in |-> <<data>>, out |-> Ok(None)]
    /\ UNCHANGED <<args, w, rng, L, R, ws, unused>>

\* data.simplify() right after data.simplify()
DSimplifyAgain ==
    /\ last.op = "simplify"
    /\ data' = Simplify(data)
    /\ last' = [op |-> "simplify.simplify", in |-> <<last.in[1], data>>, out |-> Ok(None)]
    /\ UNCHANGED <<args, w, rng, L, R, ws, unused>>

SNext ==
    \/ DSimplify
    \/ DSimplifyAgain

SimplifySpec == SInit /\ [][SNext]_vars

-----------------------------------------------------------------------------
(* The session of the Data operators: one operator is applied to a Data    *)
(* object and an operand                                                   *)

DInit ==
    /\ args = <<ListArg(<<>>), ListArg(<<>>), ListArg(<<>>), ListArg(<<>>)>>
    /\ w = NoWires
    /\ rng = 0
    /\ L = NoComp
    /\ R = NoComp
    /\ ws = <<>>
    /\ data \in SelfInputs
    /\ heap = <<>>
    /\ objs = <<>>
    /\ st = NoState
    /\ last = NoOp

\* the operators return new objects (or raise): they assign no attribute of
\* self
DApply(name, other, out) ==
    /\ last.op = "none"
    /\ last' = [op |-> name, in |-> <<data, other>>, out |-> out]
    /\ UNCHANGED <<args, w, rng, L, R, ws, data, unused>>

DAdd == \E other \in Operands(data) : DApply("add", other, DataAdd(data, other))
DSub == \E other \in Operands(data) : DApply("sub", other, DataSub(data, other))
DMul == \E other \in Operands(data) : DApply("mul", other, DataTimes(data, other))
DTrueDiv == \E other \in Operands(data) : DApply("truediv", other, DataTrueDiv(data, other))
DEq == \E other \in Operands(data) : DApply("eq", other, DataEq(data, other))
DAnd == \E other \in Operands(data) : DApply("and", other, DataAnd(data, other))

\* QPolyData(A, b, c) * other: the left operand is constructed from the
\* arrays of self
DQPolyMul ==
    \E other \in {Scalar(2), PlainObject} :
        /\ IsMatVec(data)
        /\ DApply("QPolyData.mul", other,
                  QPolyMul(QPolyData(data.mat, data.vec, data.coeff), other))

DNext ==
    \/ DAdd
    \/ DSub
    \/ DMul
    \/ DTrueDiv
    \/ DEq
    \/ DAnd
    \/ DQPolyMul

DataSpec == DInit /\ [][DNext]_vars


-----------------------------------------------------------------------------
(* The session of mask changes: a Wires is constructed, views are derived  *)
(* from it and from its views, and an entry of the mask of one of the      *)
(* objects is then changed in place.  The id table and the mask of a Wires *)
(* are numpy arrays: they live in `heap`, and an object holds their        *)
(* addresses, so that two objects can hold the same array.                 *)

\* the Wires at address-level x, with its arrays read from the heap h
Value(h, x) == [modes |-> x.modes, ids |-> h[x.ids], mask |-> h[x.mask]]

\* what an object reports: ids, mask, modes, indices
Reported(h, x) ==
    <<Ids(Value(h, x)), h[x.mask], ModesOf(Value(h, x)), Indices(Value(h, x))>>

\* w.mask = self.mask (no copy): the new object holds the array of self
MaskAlias(h, x) == [heap |-> h, addr |-> x.mask]

\* self.mask.copy() in Wires.new: a new array with the entries of self.mask
MaskCopy(h, x) == [heap |-> Append(h, h[x.mask]), addr |-> Len(h) + 1]

\* Wires.masked_view on the heap: new(self._ids) makes an object that holds
\* the id table of self (the same array) and a copy of the mask, and the
\* rows and columns are then masked in that copy, in place
HeapView(h, x, v) ==
    LET out == View(Value(h, x), v)
        c == MaskCopy(h, x)
    IN IF ~IsOk(out) THEN Err(out.err)
       ELSE Ok([heap |-> [c.heap EXCEPT ![c.addr] = out.val.mask],
                obj |-> [modes |-> x.modes, ids |-> x.ids, mask |-> c.addr]])

\* the arguments of the Wires of this session: the same modes on the bra and
\* on the ket side, with input wires on all of them or on none
RootArgs ==
    UNION {{<<a, a, a, a>>, <<a, ListArg(<<>>), a, ListArg(<<>>)>>} :
              a \in SortedArgs \ {ListArg(<<>>)}}

VInit ==
    /\ args \in RootArgs
    /\ w = NoWires
    /\ rng = 0
    /\ L = NoComp
    /\ R = NoComp
    /\ ws = <<>>
    /\ data = NoData
    /\ heap = <<>>
    /\ objs = <<>>
    /\ st = NoState
    /\ last = NoOp

\* w = Wires(*args): the id table and the mask are allocated
VConstruct ==
    /\ last.op = "none"
    /\ w' = WiresInit(args, rng)
    /\ rng' = rng + Draws(args)
    /\ heap' = <<w'.val.ids, w'.val.mask>>
    /\ objs' = <<[modes |-> w'.val.modes, ids |-> 1, mask |-> 2]>>
    /\ last' = [op |-> "__init__", in |-> <<>>, out |-> w']
    /\ UNCHANGED <<args, L, R, ws, data, st>>

\* a view of one of the objects: x.input, x.output, x.ket, x.bra, x[m]
VView ==
    \E i \in 1..Len(objs), v \in StepViews :
        /\ Len(objs) <= MaxChain
        /\ last.op \in {"__init__", "view"}
        /\ IsOk(HeapView(heap, objs[i], v))
        /\ heap' = HeapView(heap, objs[i], v).val.heap
        /\ objs' = Append(objs, HeapView(heap, objs[i], v).val.obj)
        /\ last' = [op |-> "view", in |-> <<i>>, out |-> Ok(Len(objs) + 1)]
        /\ UNCHANGED <<args, w, rng, L, R, ws, data, st>>

\* x.mask[r, k] = -x.mask[r, k] on the latest view: an entry of its mask is
\* changed in place; `in` keeps what every object reported before
VSetMask ==
    \E r \in 1..(MaxMode + 1), k \in Cols :
        /\ Len(objs) > 1
        /\ last.op = "view"
        /\ r <= Len(objs[1].modes)
        /\ heap' = [heap EXCEPT ![objs[Len(objs)].mask][r][k] = -@]
        /\ last' = [op |-> "setmask",
                    in |-> [j \in 1..Len(objs) |-> Reported(heap, objs[j])],
                    out |-> Ok(Len(objs))]
        /\ UNCHANGED <<args, w, rng, L, R, ws, data, objs, st>>

VNext ==
    \/ VConstruct
    \/ VView
    \/ VSetMask

ViewSpec == VInit /\ [][VNext]_vars


-----------------------------------------------------------------------------
(* State, as defined first in lab/abstract/state_bak.py (lines 56-706): a  *)
(* state given by a covariance matrix and means (Gaussian) or by a ket or  *)
(* a density matrix in Fock representation.  A tensor is its shape and its *)
(* entries by index; the indices of a mode start at 0.                     *)

MaxCutoff == 2      \* largest cutoff of a mode

IsNone(x) == x.cls = "NoneType"

Max(a, b) == IF a >= b THEN a ELSE b
Min(a, b) == IF a <= b THEN a ELSE b
RECURSIVE MaxOf(_)
MaxOf(s) == IF s = <<>> THEN 0 ELSE Max(Head(s), MaxOf(Tail(s)))

\* the indices of a tensor of the given shape
Idx(shape) ==
    {i \in [1..Len(shape) -> 0..(MaxOf(shape) - 1)] :
        \A d \in 1..Len(shape) : i[d] < shape[d]}

Inside(i, shape) == \A d \in 1..Len(shape) : i[d] < shape[d]

Zeros(n) == [d \in 1..n |-> 0]
FirstHalf(s) == SubSeq(s, 1, Len(s) \div 2)
SecondHalf(s) == SubSeq(s, Len(s) \div 2 + 1, Len(s))

\* paddings that put the zeros in front: (max(0, new - old), 0)
PadBefore(t, after) ==
    [cls |-> "Tensor",
     shape |-> [d \in 1..Len(t.shape) |-> t.shape[d] + after[d]],
     at |-> [i \in Idx([d \in 1..Len(t.shape) |-> t.shape[d] + after[d]]) |->
                IF \A d \in 1..Len(t.shape) : i[d] >= after[d]
                THEN t.at[[d \in 1..Len(t.shape) |-> i[d] - after[d]]] ELSE 0]]

\* math.pad(t, [(0, after[d])...], mode="constant"): zeros appended at the end
\* of every dimension
Pad(t, after) ==
    [cls |-> "Tensor",
     shape |-> [d \in 1..Len(t.shape) |-> t.shape[d] + after[d]],
     at |-> [i \in Idx([d \in 1..Len(t.shape) |-> t.shape[d] + after[d]]) |->
                IF Inside(i, t.shape) THEN t.at[i] ELSE 0]]

\* t[tuple(slice(s) for s in cut)]: the leading block of t
Slice(t, cut) ==
    [cls |-> "Tensor",
     shape |-> [d \in 1..Len(t.shape) |-> Min(t.shape[d], cut[d])],
     at |-> [i \in Idx([d \in 1..Len(t.shape) |-> Min(t.shape[d], cut[d])]) |-> t.at[i]]]

\* fock.wigner_to_fock_state(cov, means, shape): the Fock tensor of a
\* Gaussian state up to the given shape; its entries are left uninterpreted
WignerToFock(shape) ==
    [cls |-> "Tensor", shape |-> shape, at |-> [i \in Idx(shape) |-> 1]]

\* fock.ket_to_dm(ket): the outer product of the ket with itself
KetToDm(ket) ==
    [cls |-> "Tensor",
     shape |-> ket.shape \o ket.shape,
     at |-> [i \in Idx(ket.shape \o ket.shape) |->
                ket.at[FirstHalf(i)] * ket.at[SecondHalf(i)]]]

\* fock.dm_to_ket(dm) for the density matrix of a ket whose vacuum amplitude
\* is 1: the column of the vacuum
DmToKet(dm) ==
    [cls |-> "Tensor",
     shape |-> FirstHalf(dm.shape),
     at |-> [i \in Idx(FirstHalf(dm.shape)) |-> dm.at[i \o Zeros(Len(i))]]]

\* fock.ket_to_probs(ket) and fock.dm_to_probs(dm): the squared amplitudes,
\* the diagonal
KetToProbs(ket) ==
    [cls |-> "Tensor", shape |-> ket.shape,
     at |-> [i \in Idx(ket.shape) |-> ket.at[i] * ket.at[i]]]
DmToProbs(dm) ==
    [cls |-> "Tensor", shape |-> FirstHalf(dm.shape),
     at |-> [i \in Idx(FirstHalf(dm.shape)) |-> dm.at[i \o i]]]

\* fock.autocutoffs(cov, means, AUTOCUTOFF_PROBABILITY) for the Gaussian
\* states of the model
AutoCutoffs(n) == [d \in 1..n |-> MaxCutoff]

\* State.__init__: a Gaussian state State(cov=, means=, cutoffs=) or a Fock
\* state State(ket=) or State(dm=); `pure` is whether the purity is within
\* 1e-6 of 1 (gaussian.purity(cov), 1.0 for a ket, fock.purity(dm))
\* (`given` keeps the cutoffs argument of the constructor for reference; no
\* method reads it)
StateInit(gaussian, pure, n, cutoffs, ket, dm) ==
    [cls |-> "State", is_gaussian |-> gaussian, pure |-> pure, num_modes |-> n,
     given |-> cutoffs,
     cutoffs |-> cutoffs, ket |-> ket, dm |-> dm, fock_probabilities |-> None]

\* a method's effect: the state after the call and what the call returns
Effect(s, out) == [st |-> s, out |-> out]

\* State.cutoffs: the forced or remembered cutoffs, otherwise the automatic
\* cutoffs if neither a ket nor a density matrix is stored, otherwise the
\* shape of the stored ket or density matrix; the result is remembered
StateCutoffs(s) ==
    IF s.cutoffs.kind # "None" THEN Effect(s, s.cutoffs.elems)
    ELSE IF IsNone(s.ket) /\ IsNone(s.dm)
    THEN Effect([s EXCEPT !.cutoffs = ListArg(AutoCutoffs(s.num_modes))],
                AutoCutoffs(s.num_modes))
    ELSE IF ~IsNone(s.ket)
    THEN Effect([s EXCEPT !.cutoffs = ListArg(s.ket.shape)], s.ket.shape)
    ELSE Effect([s EXCEPT !.cutoffs = ListArg(SubSeq(s.dm.shape, 1, s.num_modes))],
                SubSeq(s.dm.shape, 1, s.num_modes))

\* `if cutoffs is None: cutoffs = self.cutoffs` at the head of ket and dm
\* (a list of cutoffs is taken as it is: it has no None entry here)
Resolve(s, cutoffs) ==
    IF cutoffs.kind = "None" THEN StateCutoffs(s) ELSE Effect(s, cutoffs.elems)

\* paddings = [(0, max(0, new - old)) for new, old in zip(cutoffs, current)]
Paddings(cutoffs, current) ==
    [d \in 1..Len(current) |-> Max(0, cutoffs[d] - current[d])]

\* the padded and cropped copy of a stored tensor t for the wanted shape
Resized(t, want, pads) ==
    IF \E d \in 1..Len(pads) : pads[d] # 0
    THEN Slice(Pad(t, pads), want)
    ELSE Slice(t, want)

\* State.ket(cutoffs)
StateKet(s, cutoffs) ==
    IF ~s.pure THEN Effect(s, None)
    ELSE LET r == Resolve(s, cutoffs)
             c == r.out
             g == [r.st EXCEPT !.ket = WignerToFock(c)]
             f == IF IsNone(r.st.ket) THEN [r.st EXCEPT !.ket = DmToKet(r.st.dm)]
                  ELSE r.st
         IN IF s.is_gaussian THEN Effect(g, Slice(g.ket, c))
            ELSE IF c # f.ket.shape
            THEN Effect(f, Resized(f.ket, c, Paddings(c, f.ket.shape)))
            ELSE Effect(f, Slice(f.ket, c))

\* State.dm(cutoffs)
StateDm(s, cutoffs) ==
    LET r == Resolve(s, cutoffs)
        c == r.out
        k == StateKet(r.st, ListArg(c))
        g == [r.st EXCEPT !.dm = WignerToFock(c \o c)]
        current == SubSeq(r.st.dm.shape, 1, s.num_modes)
    IN IF s.pure THEN Effect(k.st, KetToDm(k.out))
       ELSE IF s.is_gaussian THEN Effect(g, Slice(g.dm, c \o c))
       ELSE IF c # current
       THEN Effect(r.st, Resized(r.st.dm, c \o c,
                                 Paddings(c, current) \o Paddings(c, current)))
       ELSE Effect(r.st, Slice(r.st.dm, c \o c))

\* State.fock_probabilities(cutoffs): computed on the first call, remembered
StateFockProbabilities(s, cutoffs) ==
    LET d == StateDm(s, cutoffs)
        k == StateKet(s, cutoffs)
    IN IF ~IsNone(s.fock_probabilities) THEN Effect(s, s.fock_probabilities)
       ELSE IF ~s.pure
       THEN Effect([d.st EXCEPT !.fock_probabilities = DmToProbs(d.out)], DmToProbs(d.out))
       ELSE Effect([k.st EXCEPT !.fock_probabilities = KetToProbs(k.out)], KetToProbs(k.out))

-----------------------------------------------------------------------------
(* The session of a State: a state is constructed, then ket, dm, cutoffs   *)
(* and fock_probabilities are called on it, in any order, any number of    *)
(* times                                                                   *)

NumModes == {1, 2}

\* the lists of n cutoffs
CutoffLists(n) == [1..n -> 1..MaxCutoff]

\* a stored array with pairwise different entries, 1 at the vacuum
RECURSIVE Code(_)
Code(i) == IF i = <<>> THEN 1 ELSE Head(i) + (MaxCutoff + 1) * Code(Tail(i))
Stored(shape) ==
    [cls |-> "Tensor", shape |-> shape,
     at |-> [i \in Idx(shape) |-> Code(i) - Code(Zeros(Len(i))) + 1]]

GaussianStates ==
    UNION {{StateInit(TRUE, p, n, c, None, None) :
                p \in BOOLEAN, c \in {NoneArg} \cup {ListArg(l) : l \in CutoffLists(n)}} :
           n \in NumModes}

FockStates ==
    UNION {UNION {{StateInit(FALSE, TRUE, n, NoneArg, Stored(l), None),
                   StateInit(FALSE, TRUE, n, NoneArg, None, KetToDm(Stored(l))),
                   StateInit(FALSE, FALSE, n, NoneArg, None, Stored(l \o l))} :
                  l \in CutoffLists(n)} :
           n \in NumModes}

CutoffArgs(n) == {NoneArg} \cup {ListArg(l) : l \in CutoffLists(n)}

TInit ==
    /\ args = <<ListArg(<<>>), ListArg(<<>>), ListArg(<<>>), ListArg(<<>>)>>
    /\ w = NoWires
    /\ rng = 0
    /\ L = NoComp
    /\ R = NoComp
    /\ ws = <<>>
    /\ data = NoData
    /\ heap = <<>>
    /\ objs = <<>>
    /\ st \in GaussianStates \cup FockStates
    /\ last = NoOp

\* a call on the state: `in` keeps the state before the call and the argument
TCall(name, x, e) ==
    /\ st' = e.st
    /\ last' = [op |-> name, in |-> <<st, x>>, out |-> Ok(e.out)]
    /\ UNCHANGED <<args, w, rng, L, R, ws, data, heap, objs>>

TKet == \E c \in CutoffArgs(st.num_modes) : TCall("ket", c, StateKet(st, c))
TDm == \E c \in CutoffArgs(st.num_modes) : TCall("dm", c, StateDm(st, c))
TCutoffs == TCall("cutoffs", NoneArg, StateCutoffs(st))
TFockProbabilities ==
    \E c \in CutoffLists(st.num_modes) :
        TCall("fock_probabilities", ListArg(c), StateFockProbabilities(st, ListArg(c)))

TNext ==
    \/ TKet
    \/ TDm
    \/ TCutoffs
    \/ TFockProbabilities

StateSpec == TInit /\ [][TNext]_vars


-----------------------------------------------------------------------------
(* The session of a Fock state: a state is constructed from a ket or from  *)
(* a density matrix, then ket(cutoffs) and dm(cutoffs) are called on it    *)

FInit ==
    /\ args = <<ListArg(<<>>), ListArg(<<>>), ListArg(<<>>), ListArg(<<>>)>>
    /\ w = NoWires
    /\ rng = 0
    /\ L = NoComp
    /\ R = NoComp
    /\ ws = <<>>
    /\ data = NoData
    /\ heap = <<>>
    /\ objs = <<>>
    /\ st \in FockStates
    /\ last = NoOp

FKet ==
    \E c \in CutoffLists(st.num_modes) :
        TCall("ket", ListArg(c), StateKet(st, ListArg(c)))
FDm ==
    \E c \in CutoffLists(st.num_modes) :
        TCall("dm", ListArg(c), StateDm(st, ListArg(c)))

FNext ==
    \/ FKet
    \/ FDm

FockSpec == FInit /\ [][FNext]_vars


-----------------------------------------------------------------------------
(* State, Ket and DM as defined later in lab/abstract/state_bak.py (lines  *)
(* 900-1514): a state owns one representation, of kind Wigner, Fock,       *)
(* Bargmann or WaveFunctionQ, and forwards its queries to it.              *)

StateRepKinds == {"Wigner", "Fock", "Bargmann", "WaveFunctionQ"}

\* the properties of a representation
RepProperties ==
    {"purity", "norm", "von_neumann_entropy", "number_means", "number_cov",
     "number_variances", "number_stdev", "probability"}

\* a query that computes its value
ComputedQuery(q) == Ok([cls |-> "value", of |-> q])

\* a property of Bargmann (lab/representations/bargmann.py): each of them
\* raises NotImplementedError
BargmannQuery(q) == Err("NotImplementedError")

\* a property of the other representations: WaveFunctionQ has no number
\* statistics, everything else is computed
OtherQuery(kind, q) ==
    IF kind = "WaveFunctionQ" /\ q \in {"number_means", "number_cov", "number_variances"}
    THEN Err("NotImplementedError")
    ELSE ComputedQuery(q)

\* state.representation.q
RepQuery(kind, q) == IF kind = "Bargmann" THEN BargmannQuery(q) ELSE OtherQuery(kind, q)

\* SafeProperty.__get__: an AttributeError of the getter is raised again as
\* AttributeError("Property unavailable in the current representation."),
\* every other outcome passes
SafeProperty(o) == IF ~IsOk(o) /\ o.err = "AttributeError" THEN Err("AttributeError") ELSE o

\* the queries of a State and the property of the representation that each
\* one reads
StateQueries ==
    {"purity", "is_pure", "norm", "state_probability", "number_means",
     "number_cov", "number_stdev"}
Forwarded(q) ==
    CASE q = "is_pure" -> "purity"
      [] q = "state_probability" -> "probability"
      [] OTHER -> q

\* state.q: Ket answers purity (and so is_pure) itself, with 1.0; purity and
\* number_stdev are plain properties, the others are SafeProperty
StateQuery(s, q) ==
    IF s.cls = "Ket" /\ Forwarded(q) = "purity" THEN ComputedQuery(q)
    ELSE IF q \in {"purity", "is_pure", "number_stdev"} THEN RepQuery(s.rep, Forwarded(q))
    ELSE SafeProperty(RepQuery(s.rep, Forwarded(q)))

\* converter.convert(representation, target): the representation of the
\* target kind; a Fock representation of a state that is not Gaussian has no
\* Wigner representation
Convert(s, target) ==
    IF s.rep = "Fock" /\ target = "Wigner" /\ ~s.gaussian
    THEN Err("UnsupportedConversionError")
    ELSE Ok(target)

\* State.to_Bargmann, to_Fock, to_WaveFunctionQ, to_Wigner: the
\* representation is replaced by the converted one, and self is returned
ToRep(s, target) ==
    IF IsOk(Convert(s, target))
    THEN Effect([s EXCEPT !.rep = Convert(s, target).val], Ok(target))
    ELSE Effect(s, Convert(s, target))

\* Ket.ket and DM.ket: the array of a Ket in Fock representation; the body of
\* DM.ket is `pass`
RepKet(s) ==
    IF s.cls = "DM" THEN Ok(None)
    ELSE IF s.rep = "Fock" THEN ComputedQuery("ket")
    ELSE Err("AttributeError")

\* Ket.dm (through self.ket) and DM.dm
RepDm(s) ==
    IF s.cls = "Ket" THEN Then(RepKet(s), LAMBDA k : ComputedQuery("dm"))
    ELSE IF s.rep = "Fock" THEN ComputedQuery("dm")
    ELSE Err("AttributeError")

\* +, *, /, == and state.cutoffs: forwarded to the data of the
\* representation, which is read
DataOps == {"add", "mul", "truediv", "eq", "cutoffs"}

-----------------------------------------------------------------------------
(* The session of a Ket or DM: constructed in Wigner, Fock or WaveFunctionQ *)
(* representation, then converted and queried in any order                 *)

RStates ==
    {[cls |-> c, rep |-> k, gaussian |-> g] :
        c \in {"Ket", "DM"}, k \in StateRepKinds \ {"Bargmann"}, g \in BOOLEAN}

RInit ==
    /\ args = <<ListArg(<<>>), ListArg(<<>>), ListArg(<<>>), ListArg(<<>>)>>
    /\ w = NoWires
    /\ rng = 0
    /\ L = NoComp
    /\ R = NoComp
    /\ ws = <<>>
    /\ data = NoData
    /\ heap = <<>>
    /\ objs = <<>>
    /\ st \in {s \in RStates : s.rep = "Wigner" => s.gaussian}
    /\ last = NoOp

\* a call on the state: `in` keeps the state before the call and the argument
RCall(name, x, s, out) ==
    /\ st' = s
    /\ last' = [op |-> name, in |-> <<st, x>>, out |-> out]
    /\ UNCHANGED <<args, w, rng, L, R, ws, data, heap, objs>>

RConvert ==
    \E k \in StateRepKinds : RCall("to", k, ToRep(st, k).st, ToRep(st, k).out)
RRepQuery == \E q \in RepProperties : RCall("representation", q, st, RepQuery(st.rep, q))
RStateQuery == \E q \in StateQueries : RCall("state", q, st, StateQuery(st, q))
RKet == RCall("ket", NoneArg, st, RepKet(st))
RDm == RCall("dm", NoneArg, st, RepDm(st))
RDataOp == \E o \in DataOps : RCall(o, NoneArg, st, ComputedQuery(o))

\* state[item]: the modes are set, and self is returned
RGetItem == RCall("getitem", NoneArg, st, Ok(st))

RNext ==
    \/ RConvert
    \/ RRepQuery
    \/ RStateQuery
    \/ RKet
    \/ RDm
    \/ RDataOp
    \/ RGetItem

RepSpec == RInit /\ [][RNext]_vars

-----------------------------------------------------------------------------
(* Claims about Wires *)

HasModes(x) == Len(x.modes) > 0

\* C1: Wires.adjoint swaps the bra and ket sides and nothing else: the ket
\* (bra) output and input modes of w.adjoint are the bra (ket) output and input
\* modes of w, for every Wires w holding at least one mode.
C1_AdjointSwapsBraKet ==
    (last.op = "adjoint" /\ HasModes(w.val)) =>
        /\ IsOk(last.out)
        /\ KetOutputModes(last.out.val) = BraOutputModes(w.val)
        /\ KetInputModes(last.out.val) = BraInputModes(w.val)
        /\ BraOutputModes(last.out.val) = KetOutputModes(w.val)
        /\ BraInputModes(last.out.val) = KetInputModes(w.val)

\* C2: Wires.dual swaps the input and output directions and nothing else: the
\* input (output) modes of w.dual on each side are the output (input) modes of
\* w on that side, for every Wires w holding at least one mode.
C2_DualSwapsInOut ==
    (last.op = "dual" /\ HasModes(w.val)) =>
        /\ IsOk(last.out)
        /\ KetInputModes(last.out.val) = KetOutputModes(w.val)
        /\ KetOutputModes(last.out.val) = KetInputModes(w.val)
        /\ BraInputModes(last.out.val) = BraOutputModes(w.val)
        /\ BraOutputModes(last.out.val) = BraInputModes(w.val)

\* an argument that is an integer sequence in ascending order
Ascending(a) == a.kind \in {"list", "tuple"} /\ a.elems = Sorted(a.elems)

\* C10: when the four arguments are integer sequences, the Wires constructor
\* fails with the ValueError "modes must be sorted" exactly when at least one
\* of them is not in ascending order, and succeeds when all of them are.
C10_SortedCheck ==
    (last.op = "__init__" /\ \A k \in Cols : args[k].kind # "None") =>
        /\ (last.out.err = "ValueError") <=> (\E k \in Cols : ~Ascending(args[k]))
        /\ (\A k \in Cols : Ascending(args[k])) => IsOk(last.out)

-----------------------------------------------------------------------------
(* Claims about components *)

OutBra == 1
InBra == 2
OutKet == 3
InKet == 4

\* the modes on which the Wires x carries an active wire in column k
PresentModes(x, k) == {x.modes[r] : r \in {q \in 1..Len(x.modes) : Ids(x)[q][k] > 0}}

\* the id the Wires x carries for mode m in column k
IdAt(x, m, k) == Ids(x)[IndexOf(x.modes, m)][k]

HasKetWires(c, m) == m \in PresentModes(c.wires, OutKet) \cup PresentModes(c.wires, InKet)
HasBraWires(c, m) == m \in PresentModes(c.wires, OutBra) \cup PresentModes(c.wires, InBra)

\* C3: after connect(components), a component with a ket input on mode m
\* carries on it the nonzero id of the ket output on m of the nearest earlier
\* component with ket wires on m, and likewise on the bra side; for
\* connect([A, B]) the ids of A'.ket.output and B'.ket.input on m are equal.
C3_ConnectUnifiesIds ==
    (last.op = "connect") =>
        \A j \in 1..Len(last.in), i \in 1..Len(last.in), m \in Modes :
            /\ (/\ i < j
                /\ m \in PresentModes(last.in[j].wires, InKet)
                /\ m \in PresentModes(last.in[i].wires, OutKet)
                /\ \A h \in (i+1)..(j-1) : ~HasKetWires(last.in[h], m))
               => /\ IsOk(last.out)
                  /\ IdAt(last.out.val[j].wires, m, InKet) > 0
                  /\ IdAt(last.out.val[j].wires, m, InKet)
                        = IdAt(last.out.val[i].wires, m, OutKet)
            /\ (/\ i < j
                /\ m \in PresentModes(last.in[j].wires, InBra)
                /\ m \in PresentModes(last.in[i].wires, OutBra)
                /\ \A h \in (i+1)..(j-1) : ~HasBraWires(last.in[h], m))
               => /\ IsOk(last.out)
                  /\ IdAt(last.out.val[j].wires, m, InBra) > 0
                  /\ IdAt(last.out.val[j].wires, m, InBra)
                        = IdAt(last.out.val[i].wires, m, OutBra)

HasBra(c) == \E m \in Modes : HasBraWires(c, m)

\* the names add_bra's result is to carry: every component, followed by its
\* adjoint when it has no bra wire
RECURSIVE WithAdjoints(_)
WithAdjoints(cs) ==
    IF cs = <<>> THEN <<>>
    ELSE (IF HasBra(Head(cs)) THEN <<Head(cs).name>>
          ELSE <<Head(cs).name, Append(Head(cs).name, "_adj")>>)
         \o WithAdjoints(Tail(cs))

\* C4: add_bra(components) returns the components in order, each component
\* without bra wires immediately followed by its adjoint and each component
\* with a bra wire appearing once.
C4_AddBraAddsAdjoints ==
    (last.op = "add_bra") =>
        /\ IsOk(last.out)
        /\ [i \in 1..Len(last.out.val) |-> last.out.val[i].name] = WithAdjoints(last.in)

\* C5: the class of s >> t is Ket for a Ket s and a Unitary t, DM for a Ket s
\* and a Channel t, DM for a DM s and a Unitary or Channel t, each when t's
\* modes are among s's modes, and CircuitComponent otherwise.
C5_RshiftClass ==
    LET ms == last.in[1]
        t == last.in[2]
        within == Range(t.modes) \subseteq Range(ms)
    IN /\ (last.op = "Ket>>") =>
            /\ IsOk(last.out)
            /\ last.out.val.cls =
                  IF t.cls = "Unitary" /\ within THEN "Ket"
                  ELSE IF t.cls = "Channel" /\ within THEN "DM"
                  ELSE "CircuitComponent"
       /\ (last.op = "DM>>") =>
            /\ IsOk(last.out)
            /\ last.out.val.cls =
                  IF t.cls \in {"Unitary", "Channel"} /\ within THEN "DM"
                  ELSE "CircuitComponent"

Mixed(l, r) ==
    \/ l.rep.kind = "Bargmann" /\ r.rep.kind = "Fock"
    \/ l.rep.kind = "Fock" /\ r.rep.kind = "Bargmann"

C7_FromABCSides ==
    (/\ last.op = "from_ABC"
     /\ \A k \in Cols : last.in[k].kind = "list"
     /\ \E k \in Cols : last.in[k].elems # <<>>) =>
        /\ IsOk(last.out)
        /\ KetInputModes(last.out.val.wires) = Ok(last.in[1].elems)
        /\ KetOutputModes(last.out.val.wires) = Ok(last.in[2].elems)
        /\ BraInputModes(last.out.val.wires) = Ok(last.in[3].elems)
        /\ BraOutputModes(last.out.val.wires) = Ok(last.in[4].elems)

\* C8: a component constructed with mode arguments omitted is created, and has
\* wires exactly on the given modes of the supplied sides: Ket(name, modes) on
\* the ket output only, DM(name, modes) on the ket and bra outputs only, and
\* CircuitComponent(name, ...) on the sides that were given.
C8_OmittedSides ==
    /\ (last.op = "Ket") =>
          /\ IsOk(last.out)
          /\ \A k \in Cols : PresentModes(last.out.val.wires, k)
                                = IF k = OutKet THEN Range(last.in) ELSE {}
    /\ (last.op = "DM") =>
          /\ IsOk(last.out)
          /\ \A k \in Cols : PresentModes(last.out.val.wires, k)
                                = IF k \in {OutKet, OutBra} THEN Range(last.in) ELSE {}
    /\ (last.op = "CircuitComponent" /\ \E k \in Cols : last.in[k].kind = "None") =>
          /\ IsOk(last.out)
          /\ \A k \in Cols : PresentModes(last.out.val.wires, k) = Range(last.in[k].elems)

\* C9: adjoint, dual, slicing, connect and add_bra leave the components they
\* are given as they were (name, wires, representation) and return new
\* components.
C9_InputsKeptResultsNew ==
    /\ (last.op \in {"adjoint", "dual", "getitem"}) =>
          /\ last.in[1] \in Comps
          /\ IsOk(last.out)
    /\ (last.op \in {"connect", "add_bra"}) =>
          /\ \A i \in 1..Len(last.in) : last.in[i] \in Comps
          /\ IsOk(last.out)

-----------------------------------------------------------------------------
(* Claims about the ids, the views and the indices of Wires *)

\* the slots of all id tables constructed in the session
Slots ==
    {<<i, r, k>> \in (1..Len(ws)) \X (1..(MaxMode + 1)) \X Cols : r <= Len(ws[i].modes)}
SlotId(p) == ws[p[1]].ids[p[2]][p[3]]

\* C11: across every sequence of Wires constructions (Wires(...) and
\* Wires.new()), all nonzero ids of all id tables are pairwise distinct.
C11_IdsPairwiseDistinct ==
    \A p \in Slots, q \in Slots :
        (p # q /\ SlotId(p) # 0) => SlotId(p) # SlotId(q)

\* the active wires of a Wires: (mode, column) of the positive ids
Active(x) ==
    {<<x.modes[r], k>> : <<r, k>> \in
        {rk \in (1..Len(x.modes)) \X Cols : Ids(x)[rk[1]][rk[2]] > 0}}

\* the wires a view selects, in the words of the claim
Selected(v, m, k) ==
    CASE v.view = "input" -> k \in {InBra, InKet}
      [] v.view = "output" -> k \in {OutBra, OutKet}
      [] v.view = "bra" -> k \in {OutBra, InBra}
      [] v.view = "ket" -> k \in {OutKet, InKet}
      [] v.view = "getitem" -> m \in v.modes

Reverse(s) == [i \in 1..Len(s) |-> s[Len(s) + 1 - i]]

\* C12: a chain of views of w returns a Wires whose active wires are exactly
\* the active wires of w selected by every view of the chain, whatever the
\* order of the views, and never raises (a contradictory chain such as
\* w.input.output gives a Wires with no mode and no index).
C12_ViewsSelectActiveWires ==
    (last.op = "views") =>
        /\ IsOk(last.out)
        /\ Active(last.out.val) =
              {mk \in Active(w.val) :
                  \A i \in 1..Len(last.in) : Selected(last.in[i], mk[1], mk[2])}
        /\ IsOk(ViewChain(w, Reverse(last.in)))
        /\ Ids(ViewChain(w, Reverse(last.in)).val) = Ids(last.out.val)
        /\ (Active(last.out.val) = {} =>
              ModesOf(last.out.val) = <<>> /\ Indices(last.out.val) = <<>>)

\* position of the slot (r, k) among the present (nonzero) slots of the id
\* table of x, columns first, modes ascending inside a column
Position(x, r, k) ==
    Cardinality({rk \in (1..Len(x.modes)) \X Cols :
        x.ids[rk[1]][rk[2]] # 0 /\ (rk[2] < k \/ (rk[2] = k /\ rk[1] < r))})

\* C13: the indices of a Wires (w itself or a view of w, of any depth) are
\* the ascending positions of its active wires in the column-major flattening
\* of the underlying id table with the absent entries removed.
C13_IndicesArePositions ==
    (last.op = "indices") =>
        /\ IsOk(last.out)
        /\ last.out.val =
              SortedSet({Position(w.val, rk[1], rk[2]) : rk \in
                  {p \in (1..Len(w.val.modes)) \X Cols :
                      <<w.val.modes[p[1]], p[2]>> \in Active(w.val)}})

\* w.ket.input.indices == [2, 3] for w with ket wires in and out on modes 0, 1
C13_Witness ==
    /\ last.op = "indices"
    /\ args = <<ListArg(<<>>), ListArg(<<>>), ListArg(<<0, 1>>), ListArg(<<0, 1>>)>>
    /\ w.val.mask = <<<<-1, -1, -1, 1>>, <<-1, -1, -1, 1>>>>
    /\ last.out = Ok(<<2, 3>>)

\* C14: adjoint and dual are involutions on the ids of every Wires v (w itself
\* or a view of w): v.adjoint.adjoint.ids == v.ids and v.dual.dual.ids == v.ids.
C14_Involutions ==
    (last.op \in {"adjoint.adjoint", "dual.dual"} /\ IsOk(ViewChain(w, last.in))) =>
        /\ IsOk(last.out)
        /\ Ids(last.out.val) = Ids(ViewChain(w, last.in).val)

-----------------------------------------------------------------------------
(* Claims about the Data algebra *)

\* two terms with numerically equal (within the tolerance) matrix and vector
CloseTerms(x, i, y, j) == CloseMat(x.mat[i], y.mat[j]) /\ CloseVec(x.vec[i], y.vec[j])

\* two records with identical matrix and vector content
SameContent(x, y) ==
    /\ Len(x.mat) = Len(y.mat)
    /\ Len(x.vec) = Len(y.vec)
    /\ \A i \in 1..Len(x.mat) : CloseTerms(x, i, y, i)

\* C15: self + other of two MatVecData records: with identical matrix and
\* vector content, that content and the sums of the coefficients; otherwise the
\* concatenation of the two batches, the terms of self first.
C15_AddMergesOrConcatenates ==
    (last.op = "add" /\ IsMatVec(last.in[1]) /\ IsMatVec(last.in[2])) =>
        /\ IsOk(last.out)
        /\ IF SameContent(last.in[1], last.in[2])
           THEN /\ last.out.val.mat = last.in[1].mat
                /\ last.out.val.vec = last.in[1].vec
                /\ last.out.val.coeff =
                      [i \in 1..Len(last.in[1].coeff) |->
                          last.in[1].coeff[i] + last.in[2].coeff[i]]
           ELSE /\ last.out.val.mat = last.in[1].mat \o last.in[2].mat
                /\ last.out.val.vec = last.in[1].vec \o last.in[2].vec
                /\ last.out.val.coeff = last.in[1].coeff \o last.in[2].coeff

\* the permutations of 1..n, and a record with its batch reordered
Perms(n) == {f \in [1..n -> 1..n] : \A i \in 1..n, j \in 1..n : f[i] = f[j] => i = j}
Reordered(x, f) ==
    [x EXCEPT !.mat = [i \in 1..Len(x.mat) |-> x.mat[f[i]]],
              !.vec = [i \in 1..Len(x.vec) |-> x.vec[f[i]]],
              !.coeff = [i \in 1..Len(x.coeff) |-> x.coeff[f[i]]]]

\* the terms of x are terms of y: a numerically equal matrix and vector, the
\* same coefficient
TermsAmong(x, y) ==
    \A i \in 1..Len(x.mat) :
        \E j \in 1..Len(y.mat) : CloseTerms(x, i, y, j) /\ x.coeff[i] = y.coeff[j]

\* C16: after simplify() no two remaining terms have equal (matrix, vector);
\* every (matrix, vector) of the original batch is that of exactly one
\* remaining term, whose coefficient is the sum of the coefficients of the
\* original terms with that (matrix, vector); and the set of terms is the
\* same for every order of the original batch.  "Equal" is numerical equality
\* within the tolerance.
C16_SimplifyMergesEqualTerms ==
    (last.op = "simplify") =>
        /\ \A i \in 1..Len(data.mat), j \in 1..Len(data.mat) :
              i # j => ~CloseTerms(data, i, data, j)
        /\ \A k \in 1..Len(last.in[1].mat) :
              Cardinality({i \in 1..Len(data.mat) : CloseTerms(last.in[1], k, data, i)}) = 1
        /\ \A i \in 1..Len(data.mat) :
              data.coeff[i] =
                  SumOver(last.in[1].coeff,
                          {k \in 1..Len(last.in[1].mat) : CloseTerms(last.in[1], k, data, i)})
        /\ \A f \in Perms(Len(last.in[1].mat)) :
              /\ Len(Simplify(Reordered(last.in[1], f)).mat) = Len(data.mat)
              /\ TermsAmong(Simplify(Reordered(last.in[1], f)), data)
              /\ TermsAmong(data, Simplify(Reordered(last.in[1], f)))

\* C17: simplify() right after simplify() leaves the matrix, vector and
\* coefficient arrays unchanged.
C17_SimplifyIdempotent ==
    (last.op = "simplify.simplify") => data = last.in[2]

\* the first simplify() merged terms and left more than one
C17_Witness ==
    /\ last.op = "simplify.simplify"
    /\ Len(last.in[1].mat) > Len(last.in[2].mat)
    /\ Len(last.in[2].mat) > 1
    /\ data = last.in[2]

\* C18: self & other of two records of the same subtype with batch lengths B1
\* and B2 succeeds with B1 * B2 terms; the term of the pair (i, j), at
\* position i * B2 + j counted from 0, has the block-diagonal matrix, the
\* concatenated vector and the product of the coefficients of the two terms;
\* the result has the subtype of self.
C18_AndPairsTerms ==
    (last.op = "and" /\ last.in[1].cls \in {"GaussianData", "QuadraticPolyData"}
        /\ last.in[2].cls = last.in[1].cls) =>
        /\ IsOk(last.out)
        /\ last.out.val.cls = last.in[1].cls
        /\ Len(last.out.val.mat) = Len(last.in[1].mat) * Len(last.in[2].mat)
        /\ Len(last.out.val.vec) = Len(last.in[1].mat) * Len(last.in[2].mat)
        /\ Len(last.out.val.coeff) = Len(last.in[1].mat) * Len(last.in[2].mat)
        /\ \A i \in 1..Len(last.in[1].mat), j \in 1..Len(last.in[2].mat) :
              LET p == (i - 1) * Len(last.in[2].mat) + j
              IN /\ last.out.val.mat[p] =
                       <<<<last.in[1].mat[i][1][1], 0>>, <<0, last.in[2].mat[j][1][1]>>>>
                 /\ last.out.val.vec[p] = <<last.in[1].vec[i][1], last.in[2].vec[j][1]>>
                 /\ last.out.val.coeff[p] = last.in[1].coeff[i] * last.in[2].coeff[j]

\* C19: a GaussianData, QuadraticPolyData or QPolyData object times a scalar
\* k is a new record with k times the coefficients and the same matrix and
\* vector, and the object itself is not modified.
C19_ScalarMultiplication ==
    (/\ last.op \in {"mul", "QPolyData.mul"}
     /\ IsScalar(last.in[2])
     /\ last.op = "mul" => last.in[1].cls \in {"GaussianData", "QuadraticPolyData"}) =>
        /\ IsOk(last.out)
        /\ last.out.val.mat = last.in[1].mat
        /\ last.out.val.vec = last.in[1].vec
        /\ IF last.op = "mul"
           THEN last.out.val.coeff =
                    [i \in 1..Len(last.in[1].coeff) |-> last.in[2].val * last.in[1].coeff[i]]
           ELSE last.out.val.coeffs =
                    [i \in 1..Len(last.in[1].coeff) |-> last.in[2].val * last.in[1].coeff[i]]
        /\ data = last.in[1]

\* C20: +, -, *, /, == and & of a Data object with an operand that lacks the
\* attributes of Data raise TypeError, and so does the division of a Data
\* object by anything that is not a scalar; nothing else is raised and
\* nothing is returned.
C20_IncompatibleOperandTypeError ==
    (\/ last.op \in {"add", "sub", "mul", "truediv", "eq", "and"} /\ last.in[2] = PlainObject
     \/ last.op = "truediv" /\ ~IsScalar(last.in[2])) =>
        last.out.err = "TypeError"

\* C26: every record returned by a Data operation (add, multiply, &) has
\* matrix, vector and coefficient arrays of one and the same batch length
C26_ResultsShareBatchLength ==
    (/\ last.op \in {"add", "mul", "and"}
     /\ IsOk(last.out)
     /\ HasMatVecAttrs(last.out.val)) =>
        /\ Len(last.out.val.mat) = Len(last.out.val.vec)
        /\ Len(last.out.val.vec) = Len(last.out.val.coeff)

-----------------------------------------------------------------------------
(* Claims about the id table, the independence of views, and the states *)

\* the union of the four mode arguments
ArgModes == UNION {Range(args[k].elems) : k \in Cols}

\* C27: in a Wires built by the constructor the rows are the union of the
\* four mode arguments in ascending order, the entry of (mode m, column k) is
\* an id of the id space when m is in the argument of column k and 0
\* otherwise, the mask is all +1, and w.modes is that union
C27_ConstructorIdTable ==
    (last.op = "__init__" /\ IsOk(w)) =>
        /\ w.val.modes = SortedSet(ArgModes)
        /\ \A r \in 1..Len(w.val.modes), k \in Cols :
              /\ w.val.mask[r][k] = 1
              /\ IF w.val.modes[r] \in Range(args[k].elems)
                 THEN w.val.ids[r][k] \in 1..IdRange
                 ELSE w.val.ids[r][k] = 0
        /\ ModesOf(w.val) = SortedSet(ArgModes)

C27_Witness ==
    /\ last.op = "__init__"
    /\ args = <<ListArg(<<0, 1>>), ListArg(<<>>), ListArg(<<1>>), ListArg(<<>>)>>
    /\ IsOk(w)
    /\ w.val.modes = <<0, 1>>
    /\ w.val.ids[1][1] > 0
    /\ w.val.ids[1][3] = 0
    /\ w.val.ids[2][3] > 0

\* C29: c.light_copy() returns a component of the class of c with the
\* representation of c and with wires whose ids and mask equal those of c
C29_LightCopyReturnsCopy ==
    (last.op = "light_copy") =>
        /\ IsOk(last.out)
        /\ last.out.val.cls = last.in[1].cls
        /\ last.out.val.rep = last.in[1].rep
        /\ last.out.val.wires.ids = last.in[1].wires.ids
        /\ last.out.val.wires.mask = last.in[1].wires.mask


\* C28: changing the mask of a view changes nothing of what the Wires it was
\* derived from reports (ids, mask, modes, indices), nor of what any other
\* view reports
C28_ViewMaskIndependent ==
    (last.op = "setmask") =>
        \A j \in 1..(Len(objs) - 1) : Reported(heap, objs[j]) = last.in[j]

C28_Witness ==
    /\ last.op = "setmask"
    /\ Len(objs) = 3
    /\ Reported(heap, objs[3]) # last.in[3]
    /\ Reported(heap, objs[3])[3] # last.in[3][3]
    /\ heap[objs[1].ids] = heap[objs[3].ids]


\* C21: the ket of a mixed state is never returned: the call fails
C21_KetOfMixedStateFails ==
    (last.op = "ket" /\ ~last.in[1].pure) => ~IsOk(last.out)

\* C24: on a Gaussian state constructed without forced cutoffs, ket() and
\* dm() without cutoffs return a tensor of the automatic cutoffs, and the
\* cutoffs property is the automatic cutoffs, whatever was called before
C24_AutomaticCutoffsKept ==
    (st.cls = "State" /\ st.is_gaussian /\ st.given.kind = "None") =>
        /\ (last.op = "ket" /\ last.in[2].kind = "None" /\ st.pure) =>
              last.out.val.shape = AutoCutoffs(st.num_modes)
        /\ (last.op = "dm" /\ last.in[2].kind = "None") =>
              last.out.val.shape = AutoCutoffs(st.num_modes) \o AutoCutoffs(st.num_modes)
        /\ (last.op = "cutoffs") => last.out.val = AutoCutoffs(st.num_modes)

\* the ket and the density matrix that a Fock state s stores
StoredKet(s) == IF IsNone(s.ket) THEN DmToKet(s.dm) ELSE s.ket
StoredDm(s) == IF IsNone(s.dm) THEN KetToDm(s.ket) ELSE s.dm

\* the tensor of the given shape that agrees with t inside the shape of t and
\* is 0 outside
Fitted(t, shape) ==
    [cls |-> "Tensor", shape |-> shape,
     at |-> [i \in Idx(shape) |-> IF Inside(i, t.shape) THEN t.at[i] ELSE 0]]

C30_FockProbabilitiesOfTheCall ==
    (last.op = "fock_probabilities") => last.out.val.shape = last.in[2].elems


\* the queries that a representation of the given kind cannot compute
Unavailable(kind) ==
    IF kind = "Bargmann" THEN RepProperties
    ELSE IF kind = "WaveFunctionQ" THEN {"number_means", "number_cov", "number_variances"}
    ELSE {}

\* C22: a query on a representation that cannot compute it raises and returns
\* no value: every property of a Bargmann representation, the number
\* statistics of a WaveFunctionQ representation, and the queries of a state
\* that are forwarded to them
C22_UnavailableQueriesRaise ==
    /\ (last.op = "representation" /\ last.in[2] \in Unavailable(st.rep)) =>
          /\ ~IsOk(last.out)
          /\ last.out.err \in {"NotImplementedError", "AttributeError"}
    /\ (/\ last.op = "state"
        /\ Forwarded(last.in[2]) \in Unavailable(st.rep)
        /\ ~(st.cls = "Ket" /\ Forwarded(last.in[2]) = "purity")) =>
          /\ ~IsOk(last.out)
          /\ last.out.err \in {"NotImplementedError", "AttributeError"}

C22_Witness ==
    /\ last.op = "state"
    /\ st.rep = "Bargmann"
    /\ st.cls = "DM"
    /\ last.in[2] = "norm"
    /\ last.out = Err("NotImplementedError")

\* C23: the kind of the representation after a conversion is the requested
\* kind, every other operation leaves the kind as it was, and ket() and dm()
\* on a state that is not in Fock representation fail
C23_KindChangesOnlyByConversion ==
    /\ (last.op = "to" /\ IsOk(last.out)) => st.rep = last.in[2]
    /\ (last.op \notin {"none", "to"}) => st.rep = last.in[1].rep
    /\ (last.op \in {"ket", "dm"} /\ st.rep # "Fock") => ~IsOk(last.out)

====
